---- MODULE Spec2Model ----
(***************************************************************************)
(* quote-use: the declaration parser (quote-use-macros/src/use_parser.rs), *)
(* the symbol table built by QuoteUse::to_tokens and the token rewriter    *)
(* replace_in_group (quote-use-macros/src/lib.rs), as a state machine over *)
(* one macro invocation.                                                   *)
(*                                                                         *)
(* A token stream is a sequence of token trees.  Every token tree is a     *)
(* record with the same five fields, so that streams can be compared.      *)
(***************************************************************************)
EXTENDS Integers, Sequences, FiniteSets, TLC

\* ------------------------------------------------------------------ tokens

\* proc_macro2::TokenTree, one constructor per variant.
Ident(t) ==
    [kind |-> "ident", text |-> t, spacing |-> "none", delim |-> "none", inner |-> <<>>]
Punct(c, sp) ==
    [kind |-> "punct", text |-> c, spacing |-> sp, delim |-> "none", inner |-> <<>>]
Literal(t) ==
    [kind |-> "literal", text |-> t, spacing |-> "none", delim |-> "none", inner |-> <<>>]
Group(d, s) ==
    [kind |-> "group", text |-> "", spacing |-> "none", delim |-> d, inner |-> s]

\* The end of a parse buffer, as the place an error points at.
Eof ==
    [kind |-> "eof", text |-> "", spacing |-> "none", delim |-> "none", inner |-> <<>>]

\* What a panic of the macro leaves in place of tokens.
PanicMark ==
    [kind |-> "panic", text |-> "", spacing |-> "none", delim |-> "none", inner |-> <<>>]

\* quote!(::) is a joint colon followed by an alone colon.
Colon2 == << Punct(":", "joint"), Punct(":", "alone") >>

Pound == Punct("#", "alone")
Semi == Punct(";", "alone")
Comma == Punct(",", "alone")

RECURSIVE Concat(_)
Concat(ss) == IF ss = <<>> THEN <<>> ELSE ss[1] \o Concat(Tail(ss))

Front(s) == SubSeq(s, 1, Len(s) - 1)
Last(s) == s[Len(s)]

\* Words syn::Ident refuses (input.parse::<Ident>()); Ident::parse_any takes them.
Keywords == {"use", "as", "self", "crate", "super"}

\* ------------------------------------------------------------------ peeking

is_empty(input) == input = <<>>
peek_punct(input, c) ==
    /\ input # <<>>
    /\ input[1].kind = "punct"
    /\ input[1].text = c
peek_word(input, w) ==
    /\ input # <<>>
    /\ input[1].kind = "ident"
    /\ input[1].text = w
\* Token![::] wants a joint colon and then a colon of any spacing.
peek_colon2(input) ==
    /\ Len(input) >= 2
    /\ input[1].kind = "punct" /\ input[1].text = ":" /\ input[1].spacing = "joint"
    /\ input[2].kind = "punct" /\ input[2].text = ":"
peek_Brace(input) ==
    /\ input # <<>>
    /\ input[1].kind = "group"
    /\ input[1].delim = "brace"
Cursor(input) == IF input = <<>> THEN Eof ELSE input[1]

\* ------------------------------------------------------------------ Path

\* IdentOrPounded: Ident(ident) or Pounded(#, token tree).
SegIdent(tok) == [pounded |-> FALSE, tok |-> tok]
SegPounded(tok) == [pounded |-> TRUE, tok |-> tok]

is_self(seg) == ~seg.pounded /\ seg.tok.text = "self"
is_ident(seg) == ~seg.pounded

\* IdentOrPounded::to_tokens
seg_to_tokens(seg) ==
    IF seg.pounded THEN << Punct("#", "alone"), seg.tok >> ELSE << seg.tok >>

\* IdentOrPounded::parse: any identifier, else '#' and one token tree.
parse_IdentOrPounded(input) ==
    IF input # <<>> /\ input[1].kind = "ident"
    THEN [ok |-> TRUE, value |-> SegIdent(input[1]), rest |-> Tail(input)]
    ELSE IF peek_punct(input, "#") /\ Len(input) >= 2
    THEN [ok |-> TRUE, value |-> SegPounded(input[2]), rest |-> SubSeq(input, 3, Len(input))]
    ELSE [ok |-> FALSE, value |-> SegIdent(Eof),
          rest |-> IF peek_punct(input, "#") THEN Tail(input) ELSE input]

\* A trailing 'self' that is found and left in the path (the mutant of C8).
pop_self_keep(path) ==
    [popped |-> path # <<>> /\ is_self(Last(path)), path |-> path]

\* Path::pop_self: drops a trailing 'self' and says whether it did.
pop_self(path) ==
    IF path # <<>> /\ is_self(Last(path))
    THEN [popped |-> TRUE, path |-> Front(path)]
    ELSE [popped |-> FALSE, path |-> path]

\* Use(Path, Ident)
Use(path, name) == [path |-> path, name |-> name]

RECURSIVE JoinSegs(_)

\* The separators written as two colons that are not joint (the mutant of
\* C21).
JoinSegs_spaced(segs) ==
    IF segs = <<>> THEN <<>>
    ELSE << Punct(":", "alone"), Punct(":", "alone") >>
         \o seg_to_tokens(segs[1]) \o JoinSegs(Tail(segs))

\* #(::#tail)* of Path::to_tokens.
JoinSegs(segs) ==
    IF segs = <<>> THEN <<>>
    ELSE Colon2 \o seg_to_tokens(segs[1]) \o JoinSegs(Tail(segs))

\* Path::to_tokens without the root separator (the mutant of C1).
path_to_tokens_relative(path) ==
    IF path = <<>> THEN << PanicMark >>
    ELSE seg_to_tokens(path[1]) \o JoinSegs(Tail(path))

\* impl ToTokens for Path: '::' first when the first segment is an identifier,
\* then the segments joined by '::'.  An empty path panics.
path_to_tokens(path) ==
    IF path = <<>> THEN << PanicMark >>
    ELSE (IF is_ident(path[1]) THEN Colon2 ELSE <<>>)
         \o seg_to_tokens(path[1]) \o JoinSegs(Tail(path))

\* ------------------------------------------------------------------ parser

POk(rest, output) ==
    [status |-> "ok", rest |-> rest, output |-> output, at |-> Eof, msg |-> ""]
PErr(msg, at, rest, output) ==
    [status |-> "err", rest |-> rest, output |-> output, at |-> at, msg |-> msg]
PPanic(msg, rest, output) ==
    [status |-> "panic", rest |-> rest, output |-> output, at |-> Eof, msg |-> msg]

\* The closure with a ';' that ends a group as it ends a declaration (the
\* mutant of C15).
end_lenient(input, inner) ==
    IF peek_punct(input, ";") THEN "True"
    ELSE (IF is_empty(input) THEN "True" ELSE "False")

\* The closure 'end' of parse_use_segment.
end(input, inner) ==
    IF peek_punct(input, ";")
    THEN (IF inner THEN "Err" ELSE "True")
    ELSE (IF is_empty(input) THEN "True" ELSE "False")

EndError(input, output) ==
    PErr("expected ident, ',', '::' or '{'", Cursor(input), input, output)

RECURSIVE parse_loop(_, _, _, _, _)

\* A placeholder as last segment bound under the text of its token (the
\* mutant of C12).
parse_target_any(parent, inner, path, input, output) ==
    LET s == pop_self(path)
        out1 == IF s.popped
                THEN Append(output, Use(s.path, Last(s.path).tok.text))
                ELSE Append(output, Use(path, Last(path).tok.text))
        path1 == IF s.popped THEN s.path ELSE Front(path)
        e == end(input, inner)
    IN  IF s.popped /\ s.path = <<>>
        THEN PPanic("path should contain a segment", input, output)
        ELSE IF e = "Err" THEN EndError(input, out1)
        ELSE parse_loop(parent, inner, IF e = "False" THEN parent ELSE path1, input, out1)

\* The branch 'Last path segment was target of use': input is what follows
\* the segment and the comma, if there was one.
parse_target(parent, inner, path, input, output) ==
    LET s == pop_self(path)
        failed == IF s.popped
                  THEN s.path # <<>> /\ Last(s.path).pounded
                  ELSE Last(path).pounded
        out1 == IF s.popped
                THEN Append(output, Use(s.path, Last(s.path).tok.text))
                ELSE Append(output, Use(path, Last(path).tok.text))
        path1 == IF s.popped THEN s.path ELSE Front(path)
        e == end(input, inner)
    IN  IF s.popped /\ s.path = <<>>
        THEN PPanic("path should contain a segment", input, output)
        ELSE IF failed
        THEN PErr("expected ident as last path segment", Punct("#", "alone"), input, output)
        ELSE IF e = "Err" THEN EndError(input, out1)
        ELSE parse_loop(parent, inner, IF e = "False" THEN parent ELSE path1, input, out1)

\* The alias bound to the path without its last segment, as for 'self'
\* (the mutant of C7).
parse_alias_parent(parent, inner, path, input, output) ==
    LET named == input # <<>> /\ input[1].kind = "ident" /\ input[1].text \notin Keywords
        out1 == Append(output, Use(Front(path), input[1].text))
        rest == Tail(input)
        e == end(rest, inner)
    IN  IF ~named THEN PErr("expected identifier", Cursor(input), input, output)
        ELSE IF e = "Err" THEN EndError(rest, out1)
        ELSE IF e = "True" THEN POk(rest, out1)
        ELSE IF ~peek_punct(rest, ",") THEN PErr("expected ','", Cursor(rest), rest, out1)
        ELSE parse_loop(parent, inner, parent, Tail(rest), out1)

\* The branch 'Last path segment was aliased': input is what follows 'as'.
parse_alias(parent, inner, path, input, output) ==
    LET s == pop_self(path)
        named == input # <<>> /\ input[1].kind = "ident" /\ input[1].text \notin Keywords
        out1 == Append(output, Use(s.path, input[1].text))
        rest == Tail(input)
        e == end(rest, inner)
    IN  IF ~named THEN PErr("expected identifier", Cursor(input), input, output)
        ELSE IF e = "Err" THEN EndError(rest, out1)
        ELSE IF e = "True" THEN POk(rest, out1)
        ELSE IF ~peek_punct(rest, ",") THEN PErr("expected ','", Cursor(rest), rest, out1)
        ELSE parse_loop(parent, inner, parent, Tail(rest), out1)

\* fn parse_use_segment(parent, input, output, inner)
parse_use_segment(parent, input, output, inner) ==
    parse_loop(parent, inner, parent, input, output)

\* The loop with the path of a closed group kept for the item after it (the
\* mutant of C13).
parse_loop_nested(parent, inner, path, input, output) ==
    LET e1 == end(input, inner) IN
    IF e1 = "Err" THEN EndError(input, output)
    ELSE IF e1 = "True" THEN POk(input, output)
    ELSE IF peek_Brace(input)
    THEN LET r == parse_use_segment(path, input[1].inner, output, TRUE)
             after == Tail(input)
             e2 == end(after, inner)
         IN  IF r.status # "ok" THEN r
             ELSE IF e2 = "Err" THEN EndError(after, r.output)
             ELSE IF e2 = "True" THEN POk(after, r.output)
             ELSE IF ~peek_punct(after, ",")
             THEN PErr("expected ','", Cursor(after), after, r.output)
             ELSE parse_loop(parent, inner, path, Tail(after), r.output)
    ELSE LET seg == parse_IdentOrPounded(input)
             path1 == Append(path, seg.value)
             in1 == seg.rest
             comma == peek_punct(in1, ",")
             e3 == IF comma THEN "True" ELSE end(in1, inner)
         IN  IF ~seg.ok
             THEN PErr("expected '#'", Cursor(seg.rest), seg.rest, output)
             ELSE IF e3 = "Err" THEN EndError(in1, output)
             ELSE IF e3 = "True"
             THEN parse_target(parent, inner, path1,
                               IF comma THEN Tail(in1) ELSE in1, output)
             ELSE IF peek_word(in1, "as")
             THEN parse_alias(parent, inner, path1, Tail(in1), output)
             ELSE IF peek_colon2(in1)
             THEN parse_loop(parent, inner, path1, SubSeq(in1, 3, Len(in1)), output)
             ELSE PErr("expected '::'", Cursor(in1), in1, output)

\* One iteration of the 'loop' of parse_use_segment, with the local 'path'.
parse_loop(parent, inner, path, input, output) ==
    LET e1 == end(input, inner) IN
    IF e1 = "Err" THEN EndError(input, output)
    ELSE IF e1 = "True" THEN POk(input, output)
    ELSE IF peek_Brace(input)
    THEN LET r == parse_use_segment(path, input[1].inner, output, TRUE)
             after == Tail(input)
             e2 == end(after, inner)
         IN  IF r.status # "ok" THEN r
             ELSE IF e2 = "Err" THEN EndError(after, r.output)
             ELSE IF e2 = "True" THEN POk(after, r.output)
             ELSE IF ~peek_punct(after, ",")
             THEN PErr("expected ','", Cursor(after), after, r.output)
             ELSE parse_loop(parent, inner, parent, Tail(after), r.output)
    ELSE LET seg == parse_IdentOrPounded(input)
             path1 == Append(path, seg.value)
             in1 == seg.rest
             comma == peek_punct(in1, ",")
             e3 == IF comma THEN "True" ELSE end(in1, inner)
         IN  IF ~seg.ok
             THEN PErr("expected '#'", Cursor(seg.rest), seg.rest, output)
             ELSE IF e3 = "Err" THEN EndError(in1, output)
             ELSE IF e3 = "True"
             THEN parse_target(parent, inner, path1,
                               IF comma THEN Tail(in1) ELSE in1, output)
             ELSE IF peek_word(in1, "as")
             THEN parse_alias(parent, inner, path1, Tail(in1), output)
             ELSE IF peek_colon2(in1)
             THEN parse_loop(parent, inner, path1, SubSeq(in1, 3, Len(in1)), output)
             ELSE PErr("expected '::'", Cursor(in1), in1, output)

\* UseItem::parse without the optional leading '::' (the mutant of C11).
UseItem_parse_rooted(input) ==
    IF is_empty(input) THEN POk(input, <<>>)
    ELSE IF ~peek_word(input, "use")
    THEN PErr("expected 'use'", Cursor(input), input, <<>>)
    ELSE LET r == parse_use_segment(<<>>, Tail(input), <<>>, FALSE)
         IN  IF r.status # "ok" THEN r
             ELSE IF ~peek_punct(r.rest, ";")
             THEN PErr("expected ';'", Cursor(r.rest), r.rest, r.output)
             ELSE POk(Tail(r.rest), r.output)

\* impl Parse for UseItem
UseItem_parse(input) ==
    IF is_empty(input) THEN POk(input, <<>>)
    ELSE IF ~peek_word(input, "use")
    THEN PErr("expected 'use'", Cursor(input), input, <<>>)
    ELSE LET in1 == Tail(input)
             in2 == IF peek_colon2(in1) THEN SubSeq(in1, 3, Len(in1)) ELSE in1
             r == parse_use_segment(<<>>, in2, <<>>, FALSE)
         IN  IF r.status # "ok" THEN r
             ELSE IF ~peek_punct(r.rest, ";")
             THEN PErr("expected ';'", Cursor(r.rest), r.rest, r.output)
             ELSE POk(Tail(r.rest), r.output)

\* ------------------------------------------------------------------ prelude

\* The bundles of the Prelude Registry, in registry order.
PreludePath(crate, module, name) ==
    Use(<< SegIdent(Ident(crate)), SegIdent(Ident("prelude")),
           SegIdent(Ident(module)), SegIdent(Ident(name)) >>, name)
prelude_core ==
    << PreludePath("core", "v1", "Some"), PreludePath("core", "v1", "Result") >>
prelude_std ==
    << PreludePath("std", "v1", "String") >>
prelude_2021 ==
    << PreludePath("core", "rust_2021", "FromIterator"),
       PreludePath("core", "rust_2021", "TryFrom"),
       PreludePath("core", "rust_2021", "TryInto") >>

\* prelude::prelude(std): core, then std unless suppressed, then the edition.
prelude(std) ==
    prelude_core \o (IF std THEN prelude_std ELSE <<>>) \o prelude_2021

\* ------------------------------------------------------------------ rewriter

\* The last binding of that name instead of the first (the mutant of C4).
find_last(uses, ident) ==
    IF \E i \in 1..Len(uses) : uses[i].name = ident.text
    THEN CHOOSE i \in 1..Len(uses) :
            /\ uses[i].name = ident.text
            /\ \A j \in (i + 1)..Len(uses) : uses[j].name # ident.text
    ELSE 0

\* uses.iter().find(|item| &item.1 == ident): the index of the first binding
\* of that name, 0 when there is none.
find(uses, ident) ==
    IF \E i \in 1..Len(uses) : uses[i].name = ident.text
    THEN CHOOSE i \in 1..Len(uses) :
            /\ uses[i].name = ident.text
            /\ \A j \in 1..(i - 1) : uses[j].name # ident.text
    ELSE 0

\* Brackets built again as parentheses (the mutant of C5).
rewrap_parenthesis(delimiter, tokens) ==
    IF delimiter = "parenthesis" THEN << Group("parenthesis", tokens) >>
    ELSE IF delimiter = "brace" THEN << Group("brace", tokens) >>
    ELSE IF delimiter = "bracket" THEN << Group("parenthesis", tokens) >>
    ELSE tokens

\* The match on group.delimiter(): the group is built again around the
\* rewritten tokens, a none-delimited group leaves only its tokens.
rewrap(delimiter, tokens) ==
    IF delimiter = "parenthesis" THEN << Group("parenthesis", tokens) >>
    ELSE IF delimiter = "brace" THEN << Group("brace", tokens) >>
    ELSE IF delimiter = "bracket" THEN << Group("bracket", tokens) >>
    ELSE tokens

RECURSIVE replace_in_group(_, _)

\* A first colon compared with the wrong character (the mutant of C2).
first_colon_never(token) ==
    token.kind = "punct" /\ token.spacing = "joint" /\ token.text = "::"

\* A splice marker compared with the wrong character (the mutant of C3).
quote_var_never(token) ==
    token.kind = "punct" /\ token.text = "$"

\* The guards of the match arms 'first colon', 'second colon' and 'quote var'.
first_colon(token) ==
    token.kind = "punct" /\ token.spacing = "joint" /\ token.text = ":"
second_colon(token) ==
    token.kind = "punct" /\ token.text = ":"
quote_var(token) ==
    token.kind = "punct" /\ token.text = "#"

\* The closure with a second colon that is swallowed (the mutant of C6).
rewrite_token_silent(uses, state, token) ==
    IF token.kind = "ident" /\ state = "Normal"
    THEN (IF find(uses, token) # 0
          THEN [state |-> state, out |-> path_to_tokens(uses[find(uses, token)].path)]
          ELSE [state |-> state, out |-> << token >>])
    ELSE IF first_colon(token)
    THEN [state |-> "Path", out |-> << token >>]
    ELSE IF second_colon(token)
    THEN [state |-> state, out |-> <<>>]
    ELSE IF quote_var(token)
    THEN [state |-> "Pound", out |-> << token >>]
    ELSE IF token.kind = "group"
    THEN [state |-> state,
          out |-> rewrap(token.delim, replace_in_group(uses, token.inner))]
    ELSE [state |-> "Normal", out |-> << token >>]

\* The closure with a last arm that leaves the state as it is (the mutant
\* of C17).
rewrite_token_sticky(uses, state, token) ==
    IF token.kind = "ident" /\ state = "Normal"
    THEN (IF find(uses, token) # 0
          THEN [state |-> state, out |-> path_to_tokens(uses[find(uses, token)].path)]
          ELSE [state |-> state, out |-> << token >>])
    ELSE IF first_colon(token)
    THEN [state |-> "Path", out |-> << token >>]
    ELSE IF second_colon(token)
    THEN [state |-> state, out |-> << token >>]
    ELSE IF quote_var(token)
    THEN [state |-> "Pound", out |-> << token >>]
    ELSE IF token.kind = "group"
    THEN [state |-> state,
          out |-> rewrap(token.delim, replace_in_group(uses, token.inner))]
    ELSE [state |-> state, out |-> << token >>]

\* The closure with a hit whose rendered path is looked up once more,
\* identifier by identifier (the mutant of C22).
rewrite_token_again(uses, state, token) ==
    IF token.kind = "ident" /\ state = "Normal"
    THEN (IF find(uses, token) # 0
          THEN [state |-> state,
                out |-> LET path == path_to_tokens(uses[find(uses, token)].path)
                            again(t) == IF t.kind = "ident" /\ find(uses, t) # 0
                                        THEN path_to_tokens(uses[find(uses, t)].path)
                                        ELSE << t >>
                        IN  Concat([k \in 1..Len(path) |-> again(path[k])])]
          ELSE [state |-> state, out |-> << token >>])
    ELSE IF first_colon(token)
    THEN [state |-> "Path", out |-> << token >>]
    ELSE IF second_colon(token)
    THEN [state |-> state, out |-> << token >>]
    ELSE IF quote_var(token)
    THEN [state |-> "Pound", out |-> << token >>]
    ELSE IF token.kind = "group"
    THEN [state |-> state,
          out |-> rewrap(token.delim, replace_in_group(uses, token.inner))]
    ELSE [state |-> "Normal", out |-> << token >>]

\* The closure of flat_map in replace_in_group: the tokens one token turns
\* into, and the state after it.
rewrite_token(uses, state, token) ==
    IF token.kind = "ident" /\ state = "Normal"
    THEN (IF find(uses, token) # 0
          THEN [state |-> state, out |-> path_to_tokens(uses[find(uses, token)].path)]
          ELSE [state |-> state, out |-> << token >>])
    ELSE IF first_colon(token)
    THEN [state |-> "Path", out |-> << token >>]
    ELSE IF second_colon(token)
    THEN [state |-> state, out |-> << token >>]
    ELSE IF quote_var(token)
    THEN [state |-> "Pound", out |-> << token >>]
    ELSE IF token.kind = "group"
    THEN [state |-> state,
          out |-> rewrap(token.delim, replace_in_group(uses, token.inner))]
    ELSE [state |-> "Normal", out |-> << token >>]

RECURSIVE flat_map(_, _, _)
flat_map(uses, state, tokens) ==
    IF tokens = <<>> THEN <<>>
    ELSE LET r == rewrite_token(uses, state, tokens[1])
         IN  r.out \o flat_map(uses, r.state, Tail(tokens))

\* fn replace_in_group(uses, tokens): a fresh Normal state for every stream.
replace_in_group(uses, tokens) == flat_map(uses, "Normal", tokens)

RECURSIVE HasPanic(_)
HasPanic(tokens) ==
    \E i \in 1..Len(tokens) :
        \/ tokens[i].kind = "panic"
        \/ (tokens[i].kind = "group" /\ HasPanic(tokens[i].inner))

\* The filter of QuoteUse::to_tokens: the sentinels are dropped.
RECURSIVE filter_uses(_)
filter_uses(uses) ==
    IF uses = <<>> THEN <<>>
    ELSE (IF uses[1].name \in {"no_prelude", "no_std"} THEN <<>> ELSE << uses[1] >>)
         \o filter_uses(Tail(uses))

\* The prelude added whatever the declarations say (the mutant of C9).
symbol_table_always(uses) ==
    filter_uses(uses) \o prelude(TRUE)

\* The symbol table of QuoteUse::to_tokens.
symbol_table(uses) ==
    LET no_prelude == \E i \in 1..Len(uses) : uses[i].name = "no_prelude"
        no_std == \E i \in 1..Len(uses) : uses[i].name = "no_std"
    IN  filter_uses(uses) \o (IF no_prelude THEN <<>> ELSE prelude(~no_std))

\* ------------------------------------------------------------------ namespacing

\* Option: None, Some(value).
None == <<>>
Some(value) == << value >>

\* Use(TokenStream, Ident) of src/lib.rs: the path is kept as its tokens.
UseTokens(tokens, name) == [tokens |-> tokens, name |-> name]

\* The flags of the closure of replace_in_group in src/lib.rs.
Flags(in_path, in_var, namespaced_ident) ==
    [in_path |-> in_path, in_var |-> in_var, namespaced_ident |-> namespaced_ident]
NoFlags == Flags(FALSE, FALSE, FALSE)

\* The guard on '$'.
dollar(token) == token.kind = "punct" /\ token.text = "$"

\* The end of the closure: a '$' that was held back is emitted before a
\* token that is no identifier to be namespaced.
emit_token(flags, token) ==
    IF flags.namespaced_ident
    THEN [flags |-> [flags EXCEPT !.namespaced_ident = FALSE],
          out |-> << Punct("$", "alone"), token >>]
    ELSE [flags |-> flags, out |-> << token >>]

RECURSIVE replace_in_group_namespaced(_, _, _)

\* The closure of flat_map in replace_in_group of src/lib.rs.
namespaced_token(uses, flags, token, prefix) ==
    IF token.kind = "ident" /\ ~flags.in_path /\ flags.namespaced_ident
       /\ token.text # "crate"
    THEN [flags |-> [flags EXCEPT !.namespaced_ident = FALSE],
          out |-> << Ident(prefix[1] \o token.text) >>]
    ELSE IF token.kind = "ident" /\ ~(flags.in_path \/ flags.in_var)
    THEN (IF find(uses, token) # 0
          THEN [flags |-> flags, out |-> uses[find(uses, token)].tokens]
          ELSE emit_token(flags, token))
    ELSE IF first_colon(token)
    THEN emit_token([flags EXCEPT !.in_path = TRUE], token)
    ELSE IF second_colon(token)
    THEN emit_token(flags, token)
    ELSE IF quote_var(token)
    THEN emit_token([flags EXCEPT !.in_var = TRUE], token)
    ELSE IF dollar(token) /\ prefix # None
    THEN [flags |-> [flags EXCEPT !.namespaced_ident = TRUE], out |-> <<>>]
    ELSE IF token.kind = "group"
    THEN [flags |-> flags,
          out |-> rewrap(token.delim,
                         replace_in_group_namespaced(uses, token.inner, prefix))]
    ELSE emit_token([flags EXCEPT !.in_path = FALSE, !.in_var = FALSE], token)

RECURSIVE flat_map_namespaced(_, _, _, _)
flat_map_namespaced(uses, flags, tokens, prefix) ==
    IF tokens = <<>> THEN <<>>
    ELSE LET r == namespaced_token(uses, flags, tokens[1], prefix)
         IN  r.out \o flat_map_namespaced(uses, r.flags, Tail(tokens), prefix)

\* fn replace_in_group(uses, tokens, ident_prefix) of src/lib.rs.
replace_in_group_namespaced(uses, tokens, prefix) ==
    flat_map_namespaced(uses, NoFlags, tokens, prefix)

\* ------------------------------------------------------------------ state

VARIABLES
    orig,    \* the macro input as it was given
    input,   \* the macro input not parsed yet
    decls,   \* the declarations parsed so far: their tokens and their bindings
    uses,    \* the bindings of the declarations parsed so far (QuoteUse.0)
    pc,      \* "parse", "to_tokens", "rewrite", "done", "err", "panic"
    diag,    \* the parse result that ended the invocation, when one did
    symtab,  \* the symbol table of to_tokens
    tail,    \* the tokens of the tail not rewritten yet
    seen,    \* the tokens of the tail already rewritten
    state,   \* the state of replace_in_group
    last,    \* the last token rewritten, the state before it and its output
    out,     \* the tokens emitted so far
    calls,   \* the invocations of the macro in this process, this one included
    built,   \* the times prelude() has parsed the bundle texts in this process
    accesses,     \* what every call of prelude() in this process has returned
    ident_prefix  \* the prefix of namespaced identifiers, when the build has them

vars ==
    << orig, input, decls, uses, pc, diag, symtab, tail, seen, state, last, out,
       calls, built, accesses, ident_prefix >>

NoLast == [tok |-> Eof, before |-> "Normal", emit |-> <<>>]

Start(stream) ==
    /\ orig = stream
    /\ input = stream
    /\ decls = <<>>
    /\ uses = <<>>
    /\ pc = "parse"
    /\ diag = POk(<<>>, <<>>)
    /\ symtab = <<>>
    /\ tail = <<>>
    /\ seen = <<>>
    /\ state = "Normal"
    /\ last = NoLast
    /\ out = <<>>
    /\ calls = 1
    /\ built = 0
    /\ accesses = <<>>
    /\ ident_prefix = None

\* input.peek(Token![#]) && input.peek2(Token![use])
peek_use(stream) == peek_punct(stream, "#") /\ peek_word(Tail(stream), "use")

\* QuoteUse::parse, one turn of the loop whose declaration parses.
ParseUse ==
    /\ pc = "parse"
    /\ peek_use(input)
    /\ LET r == UseItem_parse(Tail(input))
       IN  /\ r.status = "ok"
           /\ uses' = uses \o r.output
           /\ decls' = Append(decls,
                    [tokens |-> SubSeq(input, 1, Len(input) - Len(r.rest)),
                     output |-> r.output])
           /\ input' = r.rest
    /\ UNCHANGED << orig, pc, diag, symtab, tail, seen, state, last, out >>
    /\ UNCHANGED << calls, built, accesses, ident_prefix >>

\* A declaration that fails and is taken for the start of the tail (the
\* mutant of C10).
ParseFail_skip ==
    /\ pc = "parse"
    /\ peek_use(input)
    /\ UseItem_parse(Tail(input)).status # "ok"
    /\ tail' = input
    /\ input' = <<>>
    /\ pc' = "to_tokens"
    /\ UNCHANGED << orig, decls, uses, diag, symtab, seen, state, last, out >>
    /\ UNCHANGED << calls, built, accesses, ident_prefix >>

\* QuoteUse::parse, a declaration that fails: quote_use_impl returns the
\* compile error alone (or the macro panics).
ParseFail ==
    /\ pc = "parse"
    /\ peek_use(input)
    /\ LET r == UseItem_parse(Tail(input))
       IN  /\ r.status # "ok"
           /\ pc' = r.status
           /\ diag' = r
    /\ UNCHANGED << orig, input, decls, uses, symtab, tail, seen, state, last, out >>
    /\ UNCHANGED << calls, built, accesses, ident_prefix >>

\* QuoteUse::parse, the end of the loop: the rest of the input is the tail.
ParseTail ==
    /\ pc = "parse"
    /\ ~peek_use(input)
    /\ tail' = input
    /\ input' = <<>>
    /\ pc' = "to_tokens"
    /\ UNCHANGED << orig, decls, uses, diag, symtab, seen, state, last, out >>
    /\ UNCHANGED << calls, built, accesses, ident_prefix >>

\* What one call of prelude() leaves in the history of the process.
Access(std) == [std |-> std, bindings |-> prelude(std)]

\* to_tokens with a registry that is parsed by the first call of prelude()
\* and kept (the mutant of C18).
ToTokens_memo ==
    /\ pc = "to_tokens"
    /\ symtab' = symbol_table(uses)
    /\ state' = "Normal"
    /\ pc' = "rewrite"
    /\ LET no_prelude == \E i \in 1..Len(uses) : uses[i].name = "no_prelude"
           no_std == \E i \in 1..Len(uses) : uses[i].name = "no_std"
       IN  /\ built' = IF no_prelude \/ built > 0 THEN built ELSE 1
           /\ accesses' = IF no_prelude THEN accesses
                           ELSE Append(accesses, Access(~no_std))
    /\ UNCHANGED << orig, input, decls, uses, diag, tail, seen, last, out, calls,
                    ident_prefix >>

\* QuoteUse::to_tokens up to the call of replace_in_group.  Unless the
\* declarations switch the prelude off, prelude() is called, and every call
\* of it parses the bundle texts.
ToTokens ==
    /\ pc = "to_tokens"
    /\ symtab' = symbol_table(uses)
    /\ state' = "Normal"
    /\ pc' = "rewrite"
    /\ LET no_prelude == \E i \in 1..Len(uses) : uses[i].name = "no_prelude"
           no_std == \E i \in 1..Len(uses) : uses[i].name = "no_std"
       IN  /\ built' = IF no_prelude THEN built ELSE built + 1
           /\ accesses' = IF no_prelude THEN accesses
                           ELSE Append(accesses, Access(~no_std))
    /\ UNCHANGED << orig, input, decls, uses, diag, tail, seen, last, out, calls,
                    ident_prefix >>

\* replace_in_group on the tail: the closure applied to the next token.  A
\* panic in it (the path of a binding has no segment) ends the invocation
\* with nothing emitted.
RewriteToken ==
    /\ pc = "rewrite"
    /\ tail # <<>>
    /\ LET r == rewrite_token(symtab, state, tail[1])
       IN  /\ last' = [tok |-> tail[1], before |-> state, emit |-> r.out]
           /\ state' = r.state
           /\ out' = IF HasPanic(r.out) THEN <<>> ELSE out \o r.out
           /\ pc' = IF HasPanic(r.out) THEN "panic" ELSE pc
    /\ seen' = Append(seen, tail[1])
    /\ tail' = Tail(tail)
    /\ UNCHANGED << orig, input, decls, uses, diag, symtab >>
    /\ UNCHANGED << calls, built, accesses, ident_prefix >>

\* replace_in_group at the end of the tail: the tokens are collected.
Collect ==
    /\ pc = "rewrite"
    /\ tail = <<>>
    /\ pc' = "done"
    /\ UNCHANGED << orig, input, decls, uses, diag, symtab, tail, seen, state, last, out >>
    /\ UNCHANGED << calls, built, accesses, ident_prefix >>

\* The invocations one process runs.
MaxInvocations == 3

\* What the later invocations of a process are given: a declaration and a
\* tail, the prelude switched off, the std bundle switched off, a
\* declaration that does not parse, and two declarations of which one binds
\* a name that is a segment of the other's path.
LaterInputs ==
    { << Pound, Ident("use"), Ident("a") >> \o Colon2 \o << Ident("Name"), Semi,
         Ident("Name"), Ident("Result") >>,
      << Pound, Ident("use"), Ident("no_prelude"), Semi, Ident("Result") >>,
      << Pound, Ident("use"), Ident("no_std"), Semi, Ident("String") >>,
      << Pound, Ident("use"), Ident("a"), Ident("Name"), Semi >>,
      << Pound, Ident("use"), Ident("a") >> \o Colon2 \o << Ident("b"), Semi,
         Pound, Ident("use"), Ident("x") >> \o Colon2 \o << Ident("a"), Semi,
         Ident("b"), Ident("a") >> }

\* quote_use_impl called again by the compiler, in the process that has run
\* the invocations before: the new invocation starts from its own input.
Invoke ==
    /\ pc \in {"done", "err", "panic"}
    /\ calls < MaxInvocations
    /\ \E stream \in LaterInputs : (orig' = stream /\ input' = stream)
    /\ decls' = <<>>
    /\ uses' = <<>>
    /\ pc' = "parse"
    /\ diag' = POk(<<>>, <<>>)
    /\ symtab' = <<>>
    /\ tail' = <<>>
    /\ seen' = <<>>
    /\ state' = "Normal"
    /\ last' = NoLast
    /\ out' = <<>>
    /\ calls' = calls + 1
    /\ UNCHANGED << built, accesses, ident_prefix >>

Next ==
    \/ ParseUse
    \/ ParseFail
    \/ ParseTail
    \/ ToTokens
    \/ RewriteToken
    \/ Collect
    \/ Invoke

\* ------------------------------------------------------------------ inputs

\* Tail tokens: an identifier the declarations bind, one the prelude binds,
\* one nothing binds, the two colons, the splice marker and a literal.
Atoms ==
    { Ident("Name"), Ident("Result"), Ident("other"), Punct(":", "joint"),
      Punct(":", "alone"), Pound, Literal("10") }
\* The delimiters of the generated groups; brackets come with the test tails.
Delimiters == {"parenthesis", "brace", "none"}

\* Every token stream of exactly w tokens, the tokens inside groups counted.
RECURSIVE StreamsOf(_)
TokensOf(w) ==
    IF w = 1 THEN Atoms \cup { Group(d, <<>>) : d \in Delimiters }
    ELSE { Group(d, s) : d \in Delimiters, s \in StreamsOf(w - 1) }
StreamsOf(w) ==
    IF w = 0 THEN { <<>> }
    ELSE UNION { { << t >> \o s : t \in TokensOf(k), s \in StreamsOf(w - k) } : k \in 1..w }

MaxTail == 3

\* Name(10)
Call == << Ident("Name"), Group("parenthesis", << Literal("10") >>) >>
\* The tails of tests/basic.rs (ident_in_path, ident_in_var, braces), a tail
\* that names the sentinels, a tail with ';' after '#', a tail with a
\* none-delimited group after '#', and a tail of groups in groups.
TestTails ==
    { Call \o << Semi, Ident("other") >> \o Colon2 \o Call,
      Call \o << Semi, Pound, Ident("Name") >>,
      << Group("brace", Call), Group("bracket", Call), Group("parenthesis", Call) >>,
      << Ident("no_prelude"), Ident("no_std"), Ident("Result"), Ident("Name") >>,
      << Pound, Semi, Ident("Name"), Pound, Ident("Name"), Semi, Ident("Result") >>,
      << Pound, Group("none", << Ident("other") >>), Ident("Name") >>,
      << Punct(":", "joint"), Punct(":", "alone"),
         Group("parenthesis", << Pound,
            Group("bracket", << Ident("Name"), Pound, Ident("Name"),
               Group("none", << Ident("Name"), Group("brace", << Ident("Result") >>) >>) >>) >>),
         Ident("Name"), Ident("Name") >> }

Tails == TestTails \cup UNION { StreamsOf(w) : w \in 0..MaxTail }
ShortTails == TestTails \cup UNION { StreamsOf(w) : w \in 0..(MaxTail - 1) }

\* '# use' path ';' with the path's names joined by '::'.
RECURSIVE Joined(_)
Joined(names) ==
    IF Len(names) = 1 THEN << Ident(names[1]) >>
    ELSE << Ident(names[1]) >> \o Colon2 \o Joined(Tail(names))
UseDecl(names) == << Pound, Ident("use") >> \o Joined(names) \o << Semi >>
UseAs(names, alias) ==
    << Pound, Ident("use") >> \o Joined(names) \o << Ident("as"), Ident(alias), Semi >>

\* The declarations every tail is rewritten under: one binding beside the
\* prelude, one without the prelude, and bindings of one name twice and of
\* a name of the prelude.
DeclCases ==
    { UseDecl(<< "a", "b", "Name" >>),
      UseDecl(<< "no_prelude" >>) \o UseDecl(<< "a", "b", "Name" >>),
      UseDecl(<< "x", "Result" >>) \o UseDecl(<< "a", "b", "Name" >>)
        \o UseDecl(<< "x", "Name" >>) }
\* The declarations the shorter tails are rewritten under: none, an alias
\* with the other sentinel, and one that does not parse.
SideCases ==
    { <<>>,
      UseAs(<< "a", "Name" >>, "Result") \o UseDecl(<< "no_std" >>),
      << Pound, Ident("use"), Ident("a"), Ident("Name"), Semi >> }

Init ==
    \/ \E d \in DeclCases, t \in Tails : Start(d \o t)
    \/ \E d \in SideCases, t \in ShortTails : Start(d \o t)

Spec == Init /\ [][Next]_vars

\* ------------------------------------------------------------------ declarations

\* The segments a declaration is written with: two names, the self-reference
\* and a placeholder.
SegTokens ==
    { << Ident("a") >>, << Ident("b") >>, << Ident("self") >>, << Pound, Ident("v") >> }

\* Chains of exactly n segments joined by '::'.
RECURSIVE ChainsOf(_)
ChainsOf(n) ==
    IF n = 1 THEN SegTokens
    ELSE { s \o Colon2 \o c : s \in SegTokens, c \in ChainsOf(n - 1) }

MaxSegs == 3
Chains == UNION { ChainsOf(n) : n \in 1..MaxSegs }

\* A chain ends as it is or with an alias.
Aliases == { <<>>, << Ident("as"), Ident("c") >>, << Ident("as"), Ident("self") >> }
Leaves == { c \o e : c \in Chains, e \in Aliases }
Items == { c \o e : c \in ChainsOf(1), e \in { <<>>, << Ident("as"), Ident("c") >> } }

\* Lists of exactly n items separated by ','.
RECURSIVE ListsOf(_, _)
ListsOf(S, n) ==
    IF n = 1 THEN S
    ELSE { i \o << Comma >> \o l : i \in S, l \in ListsOf(S, n - 1) }

MaxItems == 2
ItemLists == UNION { ListsOf(Items, n) : n \in 1..MaxItems }

\* What a brace group follows: nothing, or one or two segments and '::'.
GroupPrefixes ==
    { <<>> } \cup { c \o Colon2 : c \in ChainsOf(1) }
    \cup { Joined(<< "a", "b" >>) \o Colon2,
           << Pound, Ident("v") >> \o Colon2 \o << Ident("b") >> \o Colon2 }
Groups == { p \o << Group("brace", l) >> : p \in GroupPrefixes, l \in ItemLists }

\* A group inside a group, beside a plain item, in both orders; and an item
\* after a closed group at the top of the declaration.
NestedGroups ==
    LET InnerGroups == { << Ident(n) >> \o Colon2 \o << Group("brace", l) >> :
                            n \in {"a", "b"}, l \in ListsOf({ << Ident("a") >>, << Ident("b") >>, << Ident("self") >> }, 2) }
        Plain == { << Ident("c") >>, << Ident("self") >> }
    IN  { << Ident("a") >> \o Colon2 \o << Group("brace", l) >> :
            l \in { g \o << Comma >> \o i : g \in InnerGroups, i \in Plain }
                  \cup { i \o << Comma >> \o g : g \in InnerGroups, i \in Plain }
                  \cup { g \o << Semi >> : g \in InnerGroups } }
        \cup { << Ident("a") >> \o Colon2 \o << Group("brace", l) >> \o << Comma, Ident("c") >> :
                l \in ListsOf({ << Ident("b") >> }, 1) }

\* Groups three deep, a group first in its list, and the shape of the
\* declaration of tests/basic.rs (group).
DeepGroups ==
    LET G(l) == Group("brace", l)
        a == Ident("a")
        b == Ident("b")
        c == Ident("c")
    IN  { << a >> \o Colon2 \o << G(<< b >> \o Colon2
                \o << G(<< a >> \o Colon2 \o << G(<< a, Comma, b >>), Comma, Ident("self") >>),
                      Comma, c >>) >>,
          << G(<< a >> \o Colon2 \o << G(<< b, Comma,
                G(<< a, Ident("as"), c, Comma, b >>) >>) >>) >>,
          Joined(<< "a", "b" >>) \o Colon2 \o << G(<< a, Ident("as"), c, Comma, b, Comma,
                a >> \o Colon2 \o << G(Joined(<< "a", "b" >>) \o << Comma >>
                                        \o Joined(<< "b", "c" >>)) >>) >> }

\* Groups with a ';' in them, after an item or first, before an item or last.
StalledGroups ==
    { p \o << Group("brace", l \o << Semi >> \o r) >> :
        p \in GroupPrefixes, l \in Items \cup { <<>>, << Ident("a"), Comma >> },
        r \in { <<>>, << Ident("b") >> } }

\* Short runs of declaration tokens in any order.
RawTokens ==
    { << Ident("a") >>, << Ident("self") >>, << Ident("as") >>, Colon2, << Comma >>,
      << Semi >>, << Pound >>, << Group("brace", << Ident("b") >>) >> }
RECURSIVE RawOf(_)
RawOf(n) ==
    IF n = 0 THEN { <<>> }
    ELSE { t \o r : t \in RawTokens, r \in RawOf(n - 1) }
MaxRaw == 3
Raw == UNION { RawOf(n) : n \in 0..MaxRaw }

\* '# use', the body and ';' or no ';'; a chain also after a leading '::'.
Declarations ==
    { << Pound, Ident("use") >> \o lead \o body \o semi :
        lead \in { <<>>, Colon2 }, body \in Leaves, semi \in { << Semi >>, <<>> } }
    \cup
    { << Pound, Ident("use") >> \o body \o semi :
        body \in Groups \cup NestedGroups \cup DeepGroups \cup StalledGroups \cup Raw,
        semi \in { << Semi >>, <<>> } }

\* The tail the bindings are tried on: a b c::f()
ProbeTail ==
    << Ident("a"), Ident("b"), Ident("c") >> \o Colon2
    \o << Ident("f"), Group("parenthesis", <<>>) >>

\* One declaration and nothing else, or before the tail, there also after
\* 'use b::c;'.
InitParse ==
    \E d \in Declarations :
        \/ Start(d)
        \/ Start(d \o ProbeTail)
        \/ Start(UseDecl(<< "b", "c" >>) \o d \o ProbeTail)

SpecParse == InitParse /\ [][Next]_vars

\* replace_in_group of src/lib.rs on the tail: the closure applied to the
\* next token.
NamespaceToken ==
    /\ pc = "namespace"
    /\ tail # <<>>
    /\ LET r == namespaced_token(symtab, state, tail[1], ident_prefix)
       IN  /\ last' = [tok |-> tail[1], before |-> state, emit |-> r.out]
           /\ state' = r.flags
           /\ out' = out \o r.out
    /\ seen' = Append(seen, tail[1])
    /\ tail' = Tail(tail)
    /\ UNCHANGED << orig, input, decls, uses, pc, diag, symtab >>
    /\ UNCHANGED << calls, built, accesses, ident_prefix >>

\* replace_in_group of src/lib.rs at the end of the tail.
NamespaceCollect ==
    /\ pc = "namespace"
    /\ tail = <<>>
    /\ pc' = "namespaced"
    /\ UNCHANGED << orig, input, decls, uses, diag, symtab, tail, seen, state, last, out >>
    /\ UNCHANGED << calls, built, accesses, ident_prefix >>

NextNamespace ==
    \/ NamespaceToken
    \/ NamespaceCollect

\* Tail tokens of the namespacing build: the escape character, an
\* identifier, 'crate', a bound identifier, ';', '#' and the first colon.
NamespaceAtoms ==
    { Punct("$", "alone"), Ident("ident"), Ident("crate"), Ident("Name"), Semi, Pound,
      Punct(":", "joint") }

\* Every stream of exactly w such tokens, the tokens inside groups counted.
RECURSIVE NamespaceStreamsOf(_)
NamespaceTokensOf(w) ==
    IF w = 1 THEN NamespaceAtoms \cup { Group("parenthesis", <<>>) }
    ELSE { Group("parenthesis", s) : s \in NamespaceStreamsOf(w - 1) }
NamespaceStreamsOf(w) ==
    IF w = 0 THEN { <<>> }
    ELSE UNION { { << t >> \o s : t \in NamespaceTokensOf(k), s \in NamespaceStreamsOf(w - k) } :
                    k \in 1..w }

MaxNamespaced == 3

\* The tail of tests/basic.rs (namespace_idents), and doubled escape
\* characters as the lexer gives them, the first one joint.
NamespaceTests ==
    { << Punct("$", "alone"), Ident("ident"), Semi >>,
      << Punct("$", "joint"), Punct("$", "alone"), Ident("ident"), Semi >>,
      << Ident("Name"), Punct("$", "joint"), Punct("$", "alone"), Semi,
         Punct("$", "alone"), Ident("crate") >> \o Colon2 \o << Ident("Name") >> }

\* replace_in_group of src/lib.rs called on a tail, with the bindings of
\* 'use a::Name;' or none, in a build with the namespacing or without.
InitNamespace ==
    \E t \in NamespaceTests \cup UNION { NamespaceStreamsOf(w) : w \in 0..MaxNamespaced },
       u \in { <<>>, << UseTokens(Colon2 \o Joined(<< "a", "Name" >>), "Name") >> },
       p \in { None, Some("__quote_use_") } :
        /\ orig = t
        /\ input = <<>>
        /\ decls = <<>>
        /\ uses = u
        /\ pc = "namespace"
        /\ diag = POk(<<>>, <<>>)
        /\ symtab = u
        /\ tail = t
        /\ seen = <<>>
        /\ state = NoFlags
        /\ last = [tok |-> Eof, before |-> NoFlags, emit |-> <<>>]
        /\ out = <<>>
        /\ calls = 1
        /\ built = 0
        /\ accesses = <<>>
        /\ ident_prefix = p

SpecNamespace == InitNamespace /\ [][NextNamespace]_vars

\* ------------------------------------------------------------------ claims

Rewriting == pc \in {"rewrite", "done"}
Stepped == Rewriting /\ seen # <<>>

\* The tokens of a declaration between 'use' (and a leading '::') and ';'.
DeclBody(tokens) ==
    LET t == SubSeq(tokens, 3, Len(tokens) - 1)
    IN  IF peek_colon2(t) THEN SubSeq(t, 3, Len(t)) ELSE t

PlainName(tok) == tok.kind = "ident" /\ tok.text \notin Keywords

\* name ('::' name)*
IsNameChain(body) ==
    /\ Len(body) % 3 = 1
    /\ \A i \in 1..Len(body) :
        IF i % 3 = 1 THEN PlainName(body[i])
        ELSE IF i % 3 = 2 THEN body[i] = Punct(":", "joint")
        ELSE body[i] = Punct(":", "alone")

Bound(name) == \E i \in 1..Len(symtab) : symtab[i].name = name

\* The invocation has the single declaration 'use a::b::Name;' (any chain
\* of names) and the last token rewritten is an identifier met in Normal.
C1_Case ==
    /\ Stepped
    /\ Len(decls) = 1
    /\ IsNameChain(DeclBody(decls[1].tokens))
    /\ last.tok.kind = "ident"
    /\ last.before = "Normal"

IsColon2At(s, i) ==
    /\ i >= 1
    /\ s[i] = Punct(":", "joint")
    /\ s[i + 1].kind = "punct" /\ s[i + 1].text = ":"

\* The last token rewritten is an identifier right after '::'.
C2_Case ==
    /\ Stepped
    /\ last.tok.kind = "ident"
    /\ IsColon2At(seen, Len(seen) - 2)

\* C2: an identifier right after '::' is emitted as it is, bound or not, and
\* the state is Normal after it; 'Name(10); other::Name(10)' with Name bound
\* comes out with only the first Name replaced.
C2_QualifiedPath ==
    /\ C2_Case => (last.emit = << last.tok >> /\ state = "Normal")
    /\ ( /\ pc = "done"
         /\ seen = Call \o << Semi, Ident("other") >> \o Colon2 \o Call
         /\ Bound("Name") /\ ~Bound("other") )
       => out = path_to_tokens(symtab[find(symtab, Ident("Name"))].path)
                \o Tail(Call) \o << Semi, Ident("other") >> \o Colon2 \o Call

\* '::Name' with Name bound.
C2_Witness ==
    /\ C2_Case
    /\ Bound(last.tok.text)
    /\ last.tok = Ident("Name")
    /\ last.emit = << Ident("Name") >>

\* The last token rewritten follows the splice marker '#'.
C3_Case ==
    /\ Stepped
    /\ Len(seen) >= 2
    /\ seen[Len(seen) - 1].kind = "punct"
    /\ seen[Len(seen) - 1].text = "#"

\* C3 as stated: the token that follows '#' is emitted unchanged.  The
\* none-delimited group, which never comes out as a token, is left aside:
\* the statement fails without it.
C3_Original ==
    (C3_Case /\ ~(last.tok.kind = "group" /\ last.tok.delim = "none"))
        => last.emit = << last.tok >>

\* C3: a token right after '#' that is not a group is emitted unchanged, also
\* an identifier that an explicit or a prelude binding names; a group right
\* after '#' is rewritten as every group is.
C3_PlaceholderPassThrough ==
    C3_Case =>
        IF last.tok.kind # "group" THEN last.emit = << last.tok >>
        ELSE last.emit = rewrap(last.tok.delim, replace_in_group(symtab, last.tok.inner))

\* 'Name #Name' with Name bound: the first is replaced, the second is not.
C3_Witness ==
    /\ C3_Case
    /\ seen = << Ident("Name"), Pound, Ident("Name") >>
    /\ Bound("Name")
    /\ last.emit = << Ident("Name") >>
    /\ Len(out) > 3

Sentinels == {"no_prelude", "no_std"}
Declared(name) == \E i \in 1..Len(uses) : uses[i].name = name
LeastOf(S) == CHOOSE x \in S : \A y \in S : x <= y

\* The explicit bindings of a name, by their place in the declarations.
ExplicitHits(name) ==
    IF name \in Sentinels THEN {}
    ELSE { i \in 1..Len(uses) : uses[i].name = name }
\* The registry as the sentinels leave it, and its bindings of a name.
Registry ==
    IF Declared("no_prelude") THEN <<>> ELSE prelude(~Declared("no_std"))
RegistryHits(name) == { i \in 1..Len(Registry) : Registry[i].name = name }

\* The last token rewritten is an identifier met in Normal.
C4_Case ==
    /\ Stepped
    /\ last.tok.kind = "ident"
    /\ last.before = "Normal"

\* C4: an identifier met in Normal is replaced by the path of the earliest
\* explicit binding of its name; only when no explicit binding has the name,
\* by the path of the first prelude binding of it in registry order.
C4_Priority ==
    C4_Case =>
        LET n == last.tok.text
        IN  IF ExplicitHits(n) # {}
            THEN last.emit = path_to_tokens(uses[LeastOf(ExplicitHits(n))].path)
            ELSE IF RegistryHits(n) # {}
            THEN last.emit = path_to_tokens(Registry[LeastOf(RegistryHits(n))].path)
            ELSE last.emit = << last.tok >>

\* 'use x::Result;' over the prelude's Result.
C4_Witness ==
    /\ C4_Case
    /\ last.tok = Ident("Result")
    /\ ExplicitHits("Result") # {}
    /\ RegistryHits("Result") # {}
    /\ last.emit = Colon2 \o << Ident("x") >> \o Colon2 \o << Ident("Result") >>

\* Two declarations of Name: the earlier one is used.
C4_WitnessExplicit ==
    /\ C4_Case
    /\ last.tok = Ident("Name")
    /\ Cardinality(ExplicitHits("Name")) = 2
    /\ last.emit = Colon2 \o << Ident("a") >> \o Colon2 \o << Ident("b") >>
                   \o Colon2 \o << Ident("Name") >>

\* A stream with the none-delimited groups of its top level replaced by
\* their tokens.
RECURSIVE Unwrapped(_)
Unwrapped(tokens) ==
    IF tokens = <<>> THEN <<>>
    ELSE (IF tokens[1].kind = "group" /\ tokens[1].delim = "none"
          THEN Unwrapped(tokens[1].inner) ELSE << tokens[1] >>)
         \o Unwrapped(Tail(tokens))
IsGroup(tok) == tok.kind = "group"
GroupsIn(tokens) == SelectSeq(tokens, IsGroup)

\* Every delimited group of the input has its counterpart in the output, at
\* every depth: the same delimiter around the rewriting of its content.
RECURSIVE GroupFidelity(_, _, _)
GroupFidelity(table, given, made) ==
    LET gi == GroupsIn(Unwrapped(given))
        go == GroupsIn(made)
    IN  /\ Len(gi) = Len(go)
        /\ \A k \in 1..Len(gi) :
            /\ go[k].delim = gi[k].delim
            /\ go[k].delim \in {"parenthesis", "brace", "bracket"}
            /\ go[k].inner = replace_in_group(table, gi[k].inner)
            /\ GroupFidelity(table, gi[k].inner, go[k].inner)

\* C5: every group of the tail in (), {} or [], at any depth and whatever
\* precedes it, is in the output as a group of the same delimiter whose
\* content is the rewriting of its content as a tail of its own; the
\* output of the whole tail is the rewriting from a fresh Normal state.
C5_GroupFidelity ==
    /\ Rewriting => GroupFidelity(symtab, seen, out)
    /\ pc = "done" => out = flat_map(symtab, "Normal", seen)

\* ':: ( # [ Name #Name ...' : a bracket two groups down, after '::' and '#'.
C5_Witness ==
    /\ pc = "done"
    /\ Len(seen) = 5
    /\ IsColon2At(seen, 1)
    /\ seen[3].delim = "parenthesis"
    /\ seen[3].inner[2].delim = "bracket"
    /\ out[3].delim = "parenthesis"
    /\ out[3].inner[2].delim = "bracket"
    /\ Bound("Name")
    /\ out[3].inner[2].inner[1] = Punct(":", "joint")
    /\ GroupFidelity(symtab, seen, out)

\* No identifier of the stream, at any depth, is a bound name.
RECURSIVE NoMatch(_)
NoMatch(tokens) ==
    \A i \in 1..Len(tokens) :
        /\ tokens[i].kind = "ident" => ~Bound(tokens[i].text)
        /\ tokens[i].kind = "group" => NoMatch(tokens[i].inner)

\* A stream with its none-delimited groups, at every depth, replaced by
\* their tokens.
RECURSIVE Spliced(_)
Spliced(tokens) ==
    IF tokens = <<>> THEN <<>>
    ELSE (IF tokens[1].kind # "group" THEN << tokens[1] >>
          ELSE IF tokens[1].delim = "none" THEN Spliced(tokens[1].inner)
          ELSE << Group(tokens[1].delim, Spliced(tokens[1].inner)) >>)
         \o Spliced(Tail(tokens))

\* C6 as stated: a tail no identifier of which is bound comes out token for
\* token, every group of every delimiter kind kept.
C6_Original ==
    (pc = "done" /\ NoMatch(seen)) => out = seen

\* C6: a tail no identifier of which is bound comes out token for token, in
\* order, with every (), {} and [] group and its nesting kept; a
\* none-delimited group is replaced by its tokens.
C6_NoMatchIdentity ==
    (pc = "done" /\ NoMatch(seen)) => out = Spliced(seen)

\* A tail with an unbound identifier, a colon and a group that is unchanged.
C6_Witness ==
    /\ pc = "done"
    /\ NoMatch(seen)
    /\ symtab # <<>>
    /\ seen = << Ident("other"), Punct(":", "alone"), Group("brace", <<>>) >>
    /\ out = seen

\* C6_Witness for a none-delimited group.
C6_WitnessNone ==
    /\ pc = "done"
    /\ NoMatch(seen)
    /\ seen = << Group("none", << Ident("other") >>), Literal("10") >>
    /\ out = << Ident("other"), Literal("10") >>

\* The explicit bindings without the sentinels, in their order.
NotSentinel(u) == u.name \notin Sentinels
OtherExplicit == SelectSeq(uses, NotSentinel)

\* 'use no_prelude;' is among the declarations.
C9_Case ==
    /\ Rewriting
    /\ \E k \in 1..Len(decls) : decls[k].tokens = UseDecl(<< "no_prelude" >>)

\* C9: under 'use no_prelude;' the symbol table is the explicit bindings
\* other than the sentinels and nothing of the prelude, so an identifier only
\* the prelude binds is emitted unchanged and the other explicit bindings
\* apply; with or without it, no binding of the table is named no_prelude
\* or no_std, and these two identifiers are emitted unchanged in the tail.
C9_NoPrelude ==
    /\ C9_Case =>
        /\ symtab = OtherExplicit
        /\ \A i \in 1..Len(symtab), b \in {TRUE, FALSE} :
            \A j \in 1..Len(prelude(b)) : symtab[i] # prelude(b)[j]
        /\ (Stepped /\ last.tok.kind = "ident" /\ ExplicitHits(last.tok.text) = {})
            => last.emit = << last.tok >>
        /\ (Stepped /\ last.tok.kind = "ident" /\ last.before = "Normal"
                /\ ExplicitHits(last.tok.text) # {})
            => last.emit = path_to_tokens(uses[LeastOf(ExplicitHits(last.tok.text))].path)
    /\ Rewriting => \A i \in 1..Len(symtab) : symtab[i].name \notin Sentinels
    /\ (Stepped /\ last.tok.kind = "ident" /\ last.tok.text \in Sentinels)
        => last.emit = << last.tok >>

\* 'no_prelude no_std Result Name' under 'use no_prelude; use a::b::Name;'.
C9_Witness ==
    /\ C9_Case
    /\ pc = "done"
    /\ seen = << Ident("no_prelude"), Ident("no_std"), Ident("Result"), Ident("Name") >>
    /\ out = << Ident("no_prelude"), Ident("no_std"), Ident("Result") >>
             \o Colon2 \o << Ident("a") >> \o Colon2 \o << Ident("b") >>
             \o Colon2 \o << Ident("Name") >>

\* ident ('::' ident)*, 'self' and the other keywords among the identifiers.
IsIdentChain(body) ==
    /\ Len(body) % 3 = 1
    /\ \A i \in 1..Len(body) :
        IF i % 3 = 1 THEN body[i].kind = "ident"
        ELSE IF i % 3 = 2 THEN body[i] = Punct(":", "joint")
        ELSE body[i] = Punct(":", "alone")

\* The segments a chain of identifiers is to be parsed into.
SegsOf(chain) == [i \in 1..((Len(chain) + 2) \div 3) |-> SegIdent(chain[3 * i - 2])]

\* 'use P::N as A;' with N not 'self': the chain P::N and the alias A.
AliasChain(tokens) == SubSeq(DeclBody(tokens), 1, Len(DeclBody(tokens)) - 2)
AliasName(tokens) == Last(DeclBody(tokens)).text
IsAliasDecl(tokens) ==
    LET body == DeclBody(tokens)
    IN  /\ Len(body) >= 3
        /\ Last(tokens) = Semi
        /\ body[Len(body) - 1] = Ident("as")
        /\ PlainName(Last(body))
        /\ IsIdentChain(AliasChain(tokens))
        /\ Last(AliasChain(tokens)).text # "self"

\* The only declaration is an alias and the last token rewritten is an
\* identifier met in Normal.
C7_Case ==
    /\ Stepped
    /\ Len(decls) = 1
    /\ IsAliasDecl(decls[1].tokens)
    /\ last.tok.kind = "ident"
    /\ last.before = "Normal"

\* C7: 'use P::N as A;' gives the one binding of the path P::N to the name
\* A; as the only declaration it turns a bare A into '::P::N' and leaves a
\* bare N as it is.
C7_Alias ==
    /\ \A k \in 1..Len(decls) :
        IsAliasDecl(decls[k].tokens) =>
            decls[k].output =
                << Use(SegsOf(AliasChain(decls[k].tokens)), AliasName(decls[k].tokens)) >>
    /\ C7_Case =>
        LET chain == AliasChain(decls[1].tokens)
            A == AliasName(decls[1].tokens)
        IN  /\ last.tok.text = A => last.emit = Colon2 \o chain
            /\ (last.tok.text = Last(chain).text /\ last.tok.text # A)
                => last.emit = << last.tok >>

\* 'use a::b as c;' and the tail 'a b c::f()': c becomes '::a::b'.
C7_Witness ==
    /\ C7_Case
    /\ decls[1].tokens = UseAs(<< "a", "b" >>, "c")
    /\ seen = << Ident("a"), Ident("b"), Ident("c") >>
    /\ out = << Ident("a"), Ident("b") >> \o Colon2 \o << Ident("a") >>
             \o Colon2 \o << Ident("b") >>

\* The items of a list: the runs of tokens between its commas.
RECURSIVE ItemsOf(_, _)
ItemsOf(tokens, item) ==
    IF tokens = <<>> THEN (IF item = <<>> THEN <<>> ELSE << item >>)
    ELSE IF tokens[1] = Comma THEN << item >> \o ItemsOf(Tail(tokens), <<>>)
    ELSE ItemsOf(Tail(tokens), Append(item, tokens[1]))

\* 'use P::{items};' with P a chain of names and every item one segment,
\* with or without an alias.
GroupChain(tokens) == SubSeq(DeclBody(tokens), 1, Len(DeclBody(tokens)) - 3)
GroupItems(tokens) == ItemsOf(Last(DeclBody(tokens)).inner, <<>>)
IsLeafItem(item) ==
    \/ (Len(item) = 1 /\ item[1].kind = "ident")
    \/ (Len(item) = 3 /\ item[1].kind = "ident" /\ item[2] = Ident("as")
            /\ PlainName(item[3]))
IsSelfGroupDecl(tokens) ==
    LET body == DeclBody(tokens)
    IN  /\ Len(body) >= 4
        /\ Last(tokens) = Semi
        /\ peek_Brace(<< Last(body) >>)
        /\ IsColon2At(body, Len(body) - 2)
        /\ IsNameChain(GroupChain(tokens))
        /\ \A j \in 1..Len(GroupItems(tokens)) : IsLeafItem(GroupItems(tokens)[j])

\* The only declaration is such a group whose first item is a
\* self-reference, and the last token rewritten is an identifier met in Normal.
C8_Case ==
    /\ Stepped
    /\ Len(decls) = 1
    /\ IsSelfGroupDecl(decls[1].tokens)
    /\ GroupItems(decls[1].tokens)[1][1] = Ident("self")
    /\ last.tok.kind = "ident"
    /\ last.before = "Normal"

\* C8: in 'use P::{...};' with P a chain of names that ends in M, the item
\* 'self' gives the binding of P to M and the item 'self as C' the binding
\* of P to C; no binding of the declaration has 'self' in its path or as
\* its name; with the self-reference first, a bare M (or C) in the tail
\* becomes '::P'.
C8_SelfReference ==
    /\ \A k \in 1..Len(decls) :
        IsSelfGroupDecl(decls[k].tokens) =>
            LET P == GroupChain(decls[k].tokens)
                items == GroupItems(decls[k].tokens)
                made == decls[k].output
            IN  /\ Len(made) = Len(items)
                /\ \A j \in 1..Len(items) :
                    /\ items[j] = << Ident("self") >>
                        => made[j] = Use(SegsOf(P), Last(P).text)
                    /\ (Len(items[j]) = 3 /\ items[j][1] = Ident("self"))
                        => made[j] = Use(SegsOf(P), items[j][3].text)
                    /\ made[j].name # "self"
                    /\ \A i \in 1..Len(made[j].path) : ~is_self(made[j].path[i])
    /\ C8_Case =>
        LET P == GroupChain(decls[1].tokens)
            first == GroupItems(decls[1].tokens)[1]
            bound == IF Len(first) = 3 THEN first[3].text ELSE Last(P).text
        IN  last.tok.text = bound => last.emit = Colon2 \o P

\* 'use a::b::{self as c};' and the tail 'a b c::f()' give 'a b ::a::b::f()'.
C8_Witness ==
    /\ pc = "done"
    /\ Len(decls) = 1
    /\ decls[1].tokens = << Pound, Ident("use") >> \o Joined(<< "a", "b" >>) \o Colon2
            \o << Group("brace", << Ident("self"), Ident("as"), Ident("c") >>), Semi >>
    /\ seen = ProbeTail
    /\ out = << Ident("a"), Ident("b") >> \o Colon2 \o << Ident("a") >> \o Colon2
             \o << Ident("b") >> \o Colon2 \o << Ident("f"), Group("parenthesis", <<>>) >>

\* 'use a::b::{self, a};' and the tail 'a b c::f()': b becomes '::a::b'.
C8_WitnessPlain ==
    /\ C8_Case
    /\ GroupItems(decls[1].tokens) = << << Ident("self") >>, << Ident("a") >> >>
    /\ GroupChain(decls[1].tokens) = Joined(<< "a", "b" >>)
    /\ seen = << Ident("a"), Ident("b") >>
    /\ last.emit = Colon2 \o Joined(<< "a", "b" >>)

\* One of the leading declarations of the stream does not parse.
RECURSIVE SomeDeclFails(_)
SomeDeclFails(stream) ==
    /\ peek_use(stream)
    /\ LET r == UseItem_parse(Tail(stream))
       IN  r.status # "ok" \/ SomeDeclFails(r.rest)

\* C10: when a leading declaration does not parse, nothing is ever emitted:
\* the invocation ends with the diagnostic alone, no symbol table is built
\* and no token of the tail is rewritten, whatever was declared before.
C10_NoPartialExpansion ==
    /\ SomeDeclFails(orig) =>
        /\ pc \in {"parse", "err", "panic"}
        /\ out = <<>>
        /\ seen = <<>>
        /\ symtab = <<>>
    /\ pc = "err" =>
        /\ SomeDeclFails(orig)
        /\ diag.status = "err"

\* 'use b::c;' parsed, then a declaration that fails before the tail
\* 'a b c::f()'.
C10_Witness ==
    /\ pc = "err"
    /\ Len(decls) = 1
    /\ uses # <<>>
    /\ SubSeq(orig, Len(orig) - Len(ProbeTail) + 1, Len(orig)) = ProbeTail
    /\ out = <<>>

\* segment ('::' segment)*, a segment being an identifier or '#' and a token.
RECURSIVE IsSegChain(_)
IsSegChain(body) ==
    LET n == IF peek_punct(body, "#") THEN 2 ELSE 1
    IN  /\ Len(body) >= n
        /\ (n = 1 => body[1].kind = "ident")
        /\ \/ Len(body) = n
           \/ /\ Len(body) >= n + 3
              /\ body[n + 1] = Punct(":", "joint")
              /\ body[n + 2] = Punct(":", "alone")
              /\ IsSegChain(SubSeq(body, n + 3, Len(body)))

\* The segments such a chain is to be parsed into.
RECURSIVE ChainSegs(_)
ChainSegs(body) ==
    LET n == IF peek_punct(body, "#") THEN 2 ELSE 1
        seg == IF n = 2 THEN SegPounded(body[2]) ELSE SegIdent(body[1])
    IN  IF Len(body) = n THEN << seg >>
        ELSE << seg >> \o ChainSegs(SubSeq(body, n + 3, Len(body)))

\* 'use chain;' or 'use ::chain;' with a chain that ends in an identifier
\* other than 'self'.
IsChainDecl(tokens) ==
    LET body == DeclBody(tokens)
    IN  /\ Last(tokens) = Semi
        /\ IsSegChain(body)
        /\ is_ident(Last(ChainSegs(body)))
        /\ ~is_self(Last(ChainSegs(body)))

StartsWithColon2(tokens) == Len(tokens) >= 2 /\ SubSeq(tokens, 1, 2) = Colon2

\* The chain as it is to be rendered: '::' first when it starts with a name.
RenderedChain(body) == (IF body[1].kind = "ident" THEN Colon2 ELSE <<>>) \o body

\* The only declaration is a chain and the last token rewritten is the
\* identifier it binds, met in Normal.
C11_Case ==
    /\ Stepped
    /\ Len(decls) = 1
    /\ IsChainDecl(decls[1].tokens)
    /\ last.tok.kind = "ident"
    /\ last.before = "Normal"
    /\ last.tok.text = Last(DeclBody(decls[1].tokens)).text

\* C11: the rendering of a binding's path starts with '::' exactly when the
\* first segment is a name, and is the segments joined by one '::' each; a
\* declaration written with a leading '::' gives the bindings of the one
\* written without it; 'use #v::a;' turns a bare a into '#v::a'.
C11_RootSeparator ==
    /\ \A k \in 1..Len(decls) :
        LET tokens == decls[k].tokens
            made == decls[k].output
        IN  /\ \A j \in 1..Len(made) :
                made[j].path # <<>> =>
                    (StartsWithColon2(path_to_tokens(made[j].path))
                        <=> is_ident(made[j].path[1]))
            /\ IsChainDecl(tokens) =>
                /\ made = << Use(ChainSegs(DeclBody(tokens)), tokens[Len(tokens) - 1].text) >>
                /\ path_to_tokens(made[1].path) = RenderedChain(DeclBody(tokens))
    /\ ( /\ pc = "parse" /\ peek_use(input)
         /\ peek_colon2(SubSeq(input, 3, Len(input)))
         /\ ~peek_colon2(SubSeq(input, 5, Len(input))) ) =>
        LET with == UseItem_parse(Tail(input))
            without == UseItem_parse(<< input[2] >> \o SubSeq(input, 5, Len(input)))
        IN  /\ with.status = without.status
            /\ with.status = "ok" =>
                (with.output = without.output /\ with.rest = without.rest)
    /\ C11_Case => last.emit = RenderedChain(DeclBody(decls[1].tokens))

\* 'use #v::a;' and the tail 'a b c::f()': a becomes '#v::a'.
C11_Witness ==
    /\ C11_Case
    /\ decls[1].tokens = << Pound, Ident("use"), Pound, Ident("v") >> \o Colon2
                         \o << Ident("a"), Semi >>
    /\ seen = << Ident("a") >>
    /\ out = << Pound, Ident("v") >> \o Colon2 \o << Ident("a") >>

\* 'use ::a::b;' and the tail 'a b c::f()': b becomes '::a::b'.
C11_WitnessRoot ==
    /\ C11_Case
    /\ decls[1].tokens = << Pound, Ident("use") >> \o Colon2 \o Joined(<< "a", "b" >>)
                         \o << Semi >>
    /\ seen = << Ident("a"), Ident("b") >>
    /\ last.emit = Colon2 \o Joined(<< "a", "b" >>)

\* The first declaration of a stream: its tokens up to the first ';', the
\* whole stream when there is none.
RECURSIVE UpToSemi(_)
UpToSemi(stream) ==
    IF stream = <<>> THEN <<>>
    ELSE IF stream[1] = Semi THEN << Semi >>
    ELSE << stream[1] >> \o UpToSemi(Tail(stream))
HeadDecl == UpToSemi(input)

\* The parser is at a declaration, or has stopped at it.
AtDecl == pc \in {"parse", "err", "panic"} /\ peek_use(input)

\* 'use chain;' with a chain whose last segment is a placeholder.
IsNonNameTail(tokens) ==
    /\ Len(tokens) >= 4
    /\ Last(tokens) = Semi
    /\ IsSegChain(DeclBody(tokens))
    /\ Last(ChainSegs(DeclBody(tokens))).pounded

\* 'use chain as NAME;' with a chain whose last segment is a placeholder.
IsPlaceholderAlias(tokens) ==
    LET body == DeclBody(tokens)
    IN  /\ Len(body) >= 4
        /\ Last(tokens) = Semi
        /\ body[Len(body) - 1] = Ident("as")
        /\ PlainName(Last(body))
        /\ IsSegChain(AliasChain(tokens))
        /\ Last(ChainSegs(AliasChain(tokens))).pounded

\* The only declaration is such an alias and the last token rewritten is
\* its name, met in Normal.
C12_Case ==
    /\ Stepped
    /\ Len(decls) = 1
    /\ IsPlaceholderAlias(decls[1].tokens)
    /\ last.tok.kind = "ident"
    /\ last.before = "Normal"
    /\ last.tok.text = AliasName(decls[1].tokens)

\* C12: a declaration of a chain that ends in a placeholder and has no alias
\* ('use ::a::#v;') fails with the error of a last segment that is no
\* identifier, and no such declaration is ever among the parsed ones; the
\* same chain with 'as NAME' is accepted and gives the one binding of the
\* whole chain, placeholder included, to NAME, which the tail then shows.
C12_NonNameTail ==
    /\ (AtDecl /\ IsNonNameTail(HeadDecl)) =>
        /\ UseItem_parse(Tail(input)).status = "err"
        /\ UseItem_parse(Tail(input)).msg = "expected ident as last path segment"
        /\ pc \in {"parse", "err"}
        /\ pc = "err" => (diag = UseItem_parse(Tail(input)) /\ out = <<>>)
    /\ \A k \in 1..Len(decls) : ~IsNonNameTail(decls[k].tokens)
    /\ (AtDecl /\ IsPlaceholderAlias(HeadDecl)) =>
        /\ pc = "parse"
        /\ UseItem_parse(Tail(input)).status = "ok"
    /\ \A k \in 1..Len(decls) :
        IsPlaceholderAlias(decls[k].tokens) =>
            decls[k].output =
                << Use(ChainSegs(AliasChain(decls[k].tokens)), AliasName(decls[k].tokens)) >>
    /\ C12_Case => last.emit = RenderedChain(AliasChain(decls[1].tokens))

\* 'use ::a::#v;' has failed, with nothing emitted.
C12_Witness ==
    /\ pc = "err"
    /\ HeadDecl = << Pound, Ident("use") >> \o Colon2 \o << Ident("a") >> \o Colon2
                  \o << Pound, Ident("v"), Semi >>
    /\ IsNonNameTail(HeadDecl)
    /\ diag.msg = "expected ident as last path segment"
    /\ uses = <<>>
    /\ out = <<>>

\* 'use ::a::#v as c;' and the tail 'a b c::f()': c becomes '::a::#v'.
C12_WitnessAlias ==
    /\ C12_Case
    /\ decls[1].tokens = << Pound, Ident("use") >> \o Colon2 \o << Ident("a") >> \o Colon2
                         \o << Pound, Ident("v"), Ident("as"), Ident("c"), Semi >>
    /\ seen = << Ident("a"), Ident("b"), Ident("c") >>
    /\ last.emit = Colon2 \o << Ident("a") >> \o Colon2 \o << Pound, Ident("v") >>

\* An item of the grammar: a chain, a chain with an alias, or a brace group
\* of items, alone or after a chain and '::'.
IsAliasItem(item) ==
    /\ Len(item) >= 3
    /\ item[Len(item) - 1] = Ident("as")
    /\ PlainName(Last(item))
    /\ IsSegChain(SubSeq(item, 1, Len(item) - 2))
IsGroupItemShape(item) ==
    /\ item # <<>>
    /\ peek_Brace(<< Last(item) >>)
    /\ \/ Len(item) = 1
       \/ /\ Len(item) >= 4
          /\ item[Len(item) - 2] = Punct(":", "joint")
          /\ item[Len(item) - 1] = Punct(":", "alone")
          /\ IsSegChain(SubSeq(item, 1, Len(item) - 3))
RECURSIVE IsItem(_)
IsItem(item) ==
    \/ IsSegChain(item)
    \/ IsAliasItem(item)
    \/ /\ IsGroupItemShape(item)
       /\ \A j \in 1..Len(ItemsOf(Last(item).inner, <<>>)) :
            IsItem(ItemsOf(Last(item).inner, <<>>)[j])

\* The path a chain stands for under a prefix: a final 'self' is the path
\* before it.
LeafPath(prefix, segs) ==
    prefix \o (IF is_self(Last(segs)) THEN Front(segs) ELSE segs)
NameOf(path) == IF path = <<>> THEN "" ELSE Last(path).tok.text

\* The bindings an item stands for under the prefix of the groups around it,
\* leaf by leaf from left to right.
RECURSIVE Expand(_, _)
RECURSIVE ExpandList(_, _)
Expand(prefix, item) ==
    IF IsSegChain(item)
    THEN << Use(LeafPath(prefix, ChainSegs(item)), NameOf(LeafPath(prefix, ChainSegs(item)))) >>
    ELSE IF IsAliasItem(item)
    THEN << Use(LeafPath(prefix, ChainSegs(SubSeq(item, 1, Len(item) - 2))), Last(item).text) >>
    ELSE ExpandList(IF Len(item) = 1 THEN prefix
                    ELSE prefix \o ChainSegs(SubSeq(item, 1, Len(item) - 3)),
                    ItemsOf(Last(item).inner, <<>>))
ExpandList(prefix, items) ==
    IF items = <<>> THEN <<>>
    ELSE Expand(prefix, items[1]) \o ExpandList(prefix, Tail(items))

\* 'use item;' with one item of the grammar that holds a group.
IsGroupDecl(tokens) ==
    /\ Len(tokens) >= 4
    /\ Last(tokens) = Semi
    /\ IsGroupItemShape(DeclBody(tokens))
    /\ IsItem(DeclBody(tokens))

\* A group is nested in a group of the declaration.
HasNestedGroup(tokens) ==
    \E j \in 1..Len(Last(DeclBody(tokens)).inner) :
        peek_Brace(<< Last(DeclBody(tokens)).inner[j] >>)

\* C13: an accepted declaration with groups, nested or not, gives one
\* binding for every leaf chain, in the order the leaves are written, each
\* with the path made of the prefixes of the groups around the leaf and the
\* leaf chain; an item after a closed nested group has the prefix of the
\* group it is in.
C13_NestedGroups ==
    /\ \A k \in 1..Len(decls) :
        IsGroupDecl(decls[k].tokens) =>
            decls[k].output = Expand(<<>>, DeclBody(decls[k].tokens))
    /\ ( /\ pc = "parse" /\ peek_use(input)
         /\ HeadDecl = << Pound, Ident("use"), Ident("a") >> \o Colon2
              \o << Group("brace", << Ident("b") >> \o Colon2
                      \o << Group("brace", << Ident("a"), Comma, Ident("b") >>),
                            Comma, Ident("c") >>), Semi >> ) =>
        /\ UseItem_parse(Tail(input)).status = "ok"
        /\ UseItem_parse(Tail(input)).output =
            << Use(<< SegIdent(Ident("a")), SegIdent(Ident("b")), SegIdent(Ident("a")) >>, "a"),
               Use(<< SegIdent(Ident("a")), SegIdent(Ident("b")), SegIdent(Ident("b")) >>, "b"),
               Use(<< SegIdent(Ident("a")), SegIdent(Ident("c")) >>, "c") >>

\* 'use a::{b::{a, b}, c};' and the tail 'a b c::f()' give
\* '::a::b::a ::a::b::b ::a::c::f()'.
C13_Witness ==
    /\ pc = "done"
    /\ Len(decls) = 1
    /\ IsGroupDecl(decls[1].tokens)
    /\ HasNestedGroup(decls[1].tokens)
    /\ Len(decls[1].output) = 3
    /\ seen = ProbeTail
    /\ out = Colon2 \o Joined(<< "a", "b", "a" >>) \o Colon2 \o Joined(<< "a", "b", "b" >>)
             \o Colon2 \o Joined(<< "a", "c" >>) \o Colon2
             \o << Ident("f"), Group("parenthesis", <<>>) >>

\* Three groups deep, with a group that comes first in its list.
C13_WitnessDeep ==
    /\ Len(decls) = 1
    /\ IsGroupDecl(decls[1].tokens)
    /\ \E j \in 1..Len(Last(DeclBody(decls[1].tokens)).inner) :
        LET t == Last(DeclBody(decls[1].tokens)).inner[j]
        IN  /\ peek_Brace(<< t >>)
            /\ \E i \in 1..Len(t.inner) : peek_Brace(<< t.inner[i] >>)
    /\ Len(decls[1].output) >= 4

\* 'use self;' or 'use {..., self, ...};': a self-reference with nothing
\* before it.
IsRootSelf(tokens) ==
    LET body == DeclBody(tokens)
    IN  /\ Len(tokens) >= 4
        /\ Last(tokens) = Semi
        /\ \/ body = << Ident("self") >>
           \/ /\ Len(body) = 1
              /\ peek_Brace(body)
              /\ \A j \in 1..Len(ItemsOf(body[1].inner, <<>>)) :
                    IsLeafItem(ItemsOf(body[1].inner, <<>>)[j])
              /\ \E j \in 1..Len(ItemsOf(body[1].inner, <<>>)) :
                    ItemsOf(body[1].inner, <<>>)[j] = << Ident("self") >>

\* C14: a declaration whose self-reference has nothing before it ('use
\* self;', 'use {self};') ends the invocation with an error value: the
\* parser does not panic on it, and it is never among the parsed
\* declarations.
C14_IllegalSelfReference ==
    /\ (AtDecl /\ IsRootSelf(HeadDecl)) =>
        /\ pc # "panic"
        /\ pc = "err" => diag.status = "err"
    /\ \A k \in 1..Len(decls) : ~IsRootSelf(decls[k].tokens)

\* The number of tokens of the longest chain a stream starts with, 0 when it
\* starts with none.
RECURSIVE ChainLen(_)
ChainLen(stream) ==
    LET n == IF peek_punct(stream, "#") THEN 2 ELSE 1
        rest == SubSeq(stream, n + 1, Len(stream))
        starts == IF n = 2 THEN Len(stream) >= 2
                  ELSE stream # <<>> /\ stream[1].kind = "ident"
    IN  IF ~starts THEN 0
        ELSE IF peek_colon2(rest) /\ ChainLen(SubSeq(rest, 3, Len(rest))) > 0
        THEN n + 2 + ChainLen(SubSeq(rest, 3, Len(rest)))
        ELSE n

\* What follows 'use' and a leading '::' in the input, up to its end.
Body0 ==
    LET t == SubSeq(input, 3, Len(input))
    IN  IF peek_colon2(t) THEN SubSeq(t, 3, Len(t)) ELSE t

\* The place of a brace group that is first in Body0 or follows its chain
\* and '::'; 0 when there is none.
GroupAt ==
    LET n == ChainLen(Body0)
    IN  IF n = 0 THEN (IF peek_Brace(Body0) THEN 1 ELSE 0)
        ELSE IF peek_colon2(SubSeq(Body0, n + 1, Len(Body0)))
                /\ peek_Brace(SubSeq(Body0, n + 3, Len(Body0)))
        THEN n + 3
        ELSE 0
GroupPrefix == IF GroupAt <= 1 THEN <<>> ELSE ChainSegs(SubSeq(Body0, 1, GroupAt - 3))

\* The declaration has a ';' in its group, after items that parse.
StalledInGroup ==
    /\ AtDecl
    /\ GroupAt > 0
    /\ LET g == Body0[GroupAt].inner
           l == UpToSemi(g)
       IN  /\ l # <<>>
           /\ Last(l) = Semi
           /\ ~(Len(l) >= 2 /\ l[Len(l) - 1] = Pound)
           /\ parse_use_segment(GroupPrefix, Front(l), <<>>, TRUE).status = "ok"
StalledInGroupRest ==
    LET g == Body0[GroupAt].inner
    IN  SubSeq(g, Len(UpToSemi(g)), Len(g))

\* The declaration has, right after its chain, a token that continues no
\* declaration.
StalledAfterChain ==
    /\ AtDecl
    /\ ChainLen(Body0) > 0
    /\ Len(Body0) > ChainLen(Body0)
    /\ Body0[ChainLen(Body0) + 1] \notin { Comma, Semi, Ident("as") }
    /\ ~peek_colon2(SubSeq(Body0, ChainLen(Body0) + 1, Len(Body0)))
StalledAfterChainRest == SubSeq(Body0, ChainLen(Body0) + 1, Len(Body0))

\* The declaration has, right after its group that parses, a token that
\* continues no declaration.
StalledAfterGroup ==
    /\ AtDecl
    /\ GroupAt > 0
    /\ Len(Body0) > GroupAt
    /\ Body0[GroupAt + 1] \notin { Comma, Semi }
    /\ parse_use_segment(GroupPrefix, Body0[GroupAt].inner, <<>>, TRUE).status = "ok"
StalledAfterGroupRest == SubSeq(Body0, GroupAt + 1, Len(Body0))

\* The declaration fails with an error that points at the first token of
\* rest, and the invocation emits nothing.
FailsAt(rest) ==
    LET r == UseItem_parse(Tail(input))
    IN  /\ r.status = "err"
        /\ r.at = rest[1]
        /\ r.rest = rest
        /\ pc \in {"parse", "err"}
        /\ pc = "err" => (diag = r /\ out = <<>> /\ symtab = <<>>)

C15_WitnessChain ==
    /\ pc = "err"
    /\ StalledAfterChain
    /\ Body0 = Joined(<< "a", "b" >>) \o ProbeTail
    /\ diag.at = Ident("a")
    /\ diag.rest = ProbeTail

\* 'use a::{b}' and the tail 'a b c::f()': failed at the a of the tail.
C15_WitnessGroup ==
    /\ pc = "err"
    /\ StalledAfterGroup
    /\ Len(Body0) = GroupAt + Len(ProbeTail)
    /\ diag.at = Ident("a")
    /\ diag.rest = ProbeTail

\* C16: every binding of every accepted declaration has a path of at least
\* one segment, also when a self-reference comes with an alias, and the
\* rewriter never comes to render a path without segments.
C16_PathNonEmpty ==
    /\ \A k \in 1..Len(decls) :
        \A j \in 1..Len(decls[k].output) : decls[k].output[j].path # <<>>
    /\ \A i \in 1..Len(symtab) : symtab[i].path # <<>>
    /\ ~(pc = "panic" /\ diag.status = "ok")

\* The rewriter has panicked on the binding of 'use self as c;'.
C16_RenderPanic ==
    /\ pc = "panic"
    /\ diag.status = "ok"
    /\ Len(decls) = 1
    /\ decls[1].tokens = << Pound, Ident("use"), Ident("self"), Ident("as"), Ident("c"), Semi >>
    /\ last.tok = Ident("c")
    /\ last.emit = << PanicMark >>

\* What the look-up gives for an identifier met in Normal.
LookedUp(tok) ==
    IF find(symtab, tok) # 0 THEN path_to_tokens(symtab[find(symtab, tok)].path)
    ELSE << tok >>

\* A token the last arm of the match takes when it follows '#': an
\* identifier, a literal, or a punctuation other than ':' and '#'.
IsPlainToken(tok) ==
    \/ tok.kind \in {"ident", "literal"}
    \/ (tok.kind = "punct" /\ tok.text \notin {":", "#"})

\* The last token rewritten is an identifier that comes second after '#'.
C17_Case ==
    /\ Stepped
    /\ Len(seen) >= 3
    /\ quote_var(seen[Len(seen) - 2])
    /\ last.tok.kind = "ident"

\* C17 as stated: the token after '#' is emitted as it is whatever its kind,
\* the state is Normal after it, and an identifier that comes second after
\* '#' is looked up.  A second '#' and a joint ':' after the '#', which start
\* an escape and a path of their own, are left aside.
C17_Original ==
    /\ (C3_Case /\ ~quote_var(last.tok) /\ ~first_colon(last.tok)) =>
        /\ last.emit = << last.tok >>
        /\ state = "Normal"
    /\ ( /\ C17_Case
         /\ ~quote_var(seen[Len(seen) - 1])
         /\ ~first_colon(seen[Len(seen) - 1]) ) =>
        /\ last.before = "Normal"
        /\ last.emit = LookedUp(last.tok)

\* C17: the token after '#' is met in the state of the escape; an
\* identifier, a literal or a punctuation other than ':' and '#' is emitted
\* as it is and leaves the state Normal, so that an identifier after it is
\* looked up; a group is rewritten as every group is and, like a ':' that
\* is not joint, leaves the state of the escape, so that an identifier
\* after it is emitted as it is; a joint ':' starts a path and a '#'
\* another escape.
C17_AfterEscape ==
    /\ C3_Case =>
        /\ last.before = "Pound"
        /\ IsPlainToken(last.tok) => (last.emit = << last.tok >> /\ state = "Normal")
        /\ last.tok.kind = "group" =>
            /\ last.emit = rewrap(last.tok.delim, replace_in_group(symtab, last.tok.inner))
            /\ state = "Pound"
        /\ last.tok.kind = "punct" => last.emit = << last.tok >>
        /\ first_colon(last.tok) => state = "Path"
        /\ (second_colon(last.tok) /\ ~first_colon(last.tok)) => state = "Pound"
        /\ quote_var(last.tok) => state = "Pound"
    /\ C17_Case =>
        LET mid == seen[Len(seen) - 1]
        IN  /\ IsPlainToken(mid) =>
                (last.before = "Normal" /\ last.emit = LookedUp(last.tok))
            /\ (mid.kind = "group" \/ (second_colon(mid) /\ ~first_colon(mid))) =>
                (last.before = "Pound" /\ last.emit = << last.tok >>)

\* '# other Name' with Name bound: other is kept, Name is replaced.
C17_Witness ==
    /\ C17_Case
    /\ seen = << Pound, Ident("other"), Ident("Name") >>
    /\ Bound("Name")
    /\ last.before = "Normal"
    /\ last.emit # << Ident("Name") >>
    /\ SubSeq(out, 1, 2) = << Pound, Ident("other") >>

\* '# ; Name' with Name bound: Name is replaced.
C17_WitnessPunct ==
    /\ C17_Case
    /\ SubSeq(seen, 1, 3) = << Pound, Semi, Ident("Name") >>
    /\ Len(seen) = 3
    /\ Bound("Name")
    /\ last.emit = LookedUp(Ident("Name"))
    /\ last.emit # << Ident("Name") >>

\* '# () Name' with Name bound: Name is not replaced.
C17_WitnessGroup ==
    /\ C17_Case
    /\ seen = << Pound, Group("parenthesis", <<>>), Ident("Name") >>
    /\ Bound("Name")
    /\ last.before = "Pound"
    /\ out = seen

\* The invocations of the process that have called prelude(): those that
\* came to to_tokens without 'use no_prelude;'.  The invocation at hand is
\* one of them once it rewrites.
AccessedNow == Rewriting /\ ~Declared("no_prelude")

HasTopComma(tokens) ==
    \E i \in 3..Len(tokens) : tokens[i] = Comma /\ tokens[i - 1] # Pound

\* C19: a declaration with a ',' outside its brace groups ('use a, b;',
\* 'use a::{b}, c;') fails with an error: it is never among the parsed
\* declarations and it gives no binding.
C19_TopLevelComma ==
    \A k \in 1..Len(decls) : ~HasTopComma(decls[k].tokens)

\* 'use a::{b}, c;' has been accepted, and the tail 'a b c::f()' comes out
\* as 'a ::a::b ::c::f()'.
C19_Accepted ==
    /\ pc = "done"
    /\ Len(decls) = 1
    /\ decls[1].tokens = << Pound, Ident("use"), Ident("a") >> \o Colon2
            \o << Group("brace", << Ident("b") >>), Comma, Ident("c"), Semi >>
    /\ seen = ProbeTail
    /\ out = << Ident("a") >> \o Colon2 \o Joined(<< "a", "b" >>) \o Colon2
             \o << Ident("c") >> \o Colon2 \o << Ident("f"), Group("parenthesis", <<>>) >>

\* The tokens before the last three that were processed, and what
\* replace_in_group of src/lib.rs emits for them.
BeforeEscape == SubSeq(seen, 1, Len(seen) - 3)
BeforeEscapeOut == replace_in_group_namespaced(symtab, BeforeEscape, ident_prefix)

\* The case of C20: the namespacing is enabled and the last three tokens
\* processed are exactly two escape characters and a token that is none,
\* outside a path and outside a quote variable.
C20_Case ==
    /\ pc \in { "namespace", "namespaced" }
    /\ ident_prefix # None
    /\ Len(seen) >= 3
    /\ dollar(seen[Len(seen) - 2])
    /\ dollar(seen[Len(seen) - 1])
    /\ ~dollar(seen[Len(seen)])
    /\ (Len(seen) > 3 => ~dollar(seen[Len(seen) - 3]))
    /\ ~last.before.in_path
    /\ ~last.before.in_var

\* What the closure emits for a token that no escape character precedes.
OrdinaryOut(token) == namespaced_token(symtab, NoFlags, token, ident_prefix).out

\* C20: with the namespacing enabled, two consecutive escape characters
\* '$$' of the tail are emitted as exactly one literal '$' token, and the
\* token that follows them is processed as an ordinary token: an identifier
\* after '$$' is not rewritten into a prefixed name.
C20_DoubledEscape ==
    C20_Case =>
        /\ Len(out) = Len(BeforeEscapeOut) + 1 + Len(OrdinaryOut(seen[Len(seen)]))
        /\ SubSeq(out, 1, Len(BeforeEscapeOut)) = BeforeEscapeOut
        /\ dollar(out[Len(BeforeEscapeOut) + 1])
        /\ SubSeq(out, Len(BeforeEscapeOut) + 2, Len(out)) = OrdinaryOut(seen[Len(seen)])

\* What the code does with '$$' and an identifier: both escape characters
\* are dropped and the identifier is given the prefix.
C20_BothDropped ==
    (C20_Case /\ seen[Len(seen)].kind = "ident" /\ seen[Len(seen)].text # "crate") =>
        out = BeforeEscapeOut \o << Ident(ident_prefix[1] \o seen[Len(seen)].text) >>

\* '$$ident' has been processed.
C20_Reached ==
    /\ C20_Case
    /\ seen = << Punct("$", "joint"), Punct("$", "alone"), Ident("ident") >>

\* tests/basic.rs, namespace_idents: '$ident;' gives the prefixed name.
NamespaceIdentsTest ==
    (pc = "namespaced" /\ ident_prefix # None
     /\ seen = << Punct("$", "alone"), Ident("ident"), Semi >>) =>
        out = << Ident("__quote_use_ident"), Semi >>

\* A path of Name segments only: no placeholder among its segments.
OnlyNames(path) == \A i \in 1..Len(path) : ~path[i].pounded

\* A none-delimited group somewhere in the tokens, at any depth.
RECURSIVE HasNoneGroup(_)
HasNoneGroup(tokens) ==
    \E i \in 1..Len(tokens) :
        /\ tokens[i].kind = "group"
        /\ (tokens[i].delim = "none" \/ HasNoneGroup(tokens[i].inner))

\* The case of C21: the rewriter has given the output of a tail (or of the
\* tokens of it taken so far), the paths of the symbol table are made of
\* Name segments and the tail has no none-delimited group.
C21_Case ==
    /\ pc \in { "rewrite", "done" }
    /\ \A i \in 1..Len(symtab) : OnlyNames(symtab[i].path)
    /\ ~HasNoneGroup(seen)

\* C21: rewriting is idempotent.  For a symbol table whose paths are made
\* of Name segments and a tail without none-delimited groups, the rewriter
\* applied with the same symbol table to its own output returns that
\* output unchanged.
C21_Idempotent ==
    C21_Case =>
        /\ out = replace_in_group(symtab, seen)
        /\ replace_in_group(symtab, out) = out

\* A whole tail has been rewritten, in a group too, and the output is not
\* the tail: 'Name(10); other::Name(10)' under 'use a::b::Name;'.
C21_Witness ==
    /\ C21_Case
    /\ pc = "done"
    /\ seen = Call \o << Semi, Ident("other") >> \o Colon2 \o Call
    /\ out # seen
    /\ \E i \in 1..Len(symtab) : symtab[i].name = "Name" /\ Len(symtab[i].path) = 3

\* The restriction to tails without none-delimited groups is needed: under
\* 'use a::b::Name;' the tail '#' none-group(other) 'Name' gives '# other
\* Name', and that gives '# other ::a::b::Name'.
C21_NoneGroupRewrittenAgain ==
    /\ pc = "done"
    /\ seen = << Pound, Group("none", << Ident("other") >>), Ident("Name") >>
    /\ out = << Pound, Ident("other"), Ident("Name") >>
    /\ replace_in_group(symtab, out) # out

\* The case of C22: the last token rewritten is an identifier met in the
\* state Normal that the symbol table binds.
C22_Case ==
    /\ Stepped
    /\ last.tok.kind = "ident"
    /\ last.before = "Normal"
    /\ find(symtab, last.tok) # 0

\* The symbol table of 'use a::b; use x::a;': the name 'a' is bound and is
\* a segment of the path bound to 'b'.
CrossBound ==
    /\ find(symtab, Ident("b")) # 0
    /\ find(symtab, Ident("a")) # 0
    /\ symtab[find(symtab, Ident("b"))].path = << SegIdent(Ident("a")), SegIdent(Ident("b")) >>
    /\ symtab[find(symtab, Ident("a"))].path = << SegIdent(Ident("x")), SegIdent(Ident("a")) >>

\* C22: substitution is single-pass.  A hit puts the rendered path of its
\* binding into the output as it is, its tokens not looked up, behind the
\* output of the tokens before; an identifier that is no hit stays one
\* token; and under 'use a::b; use x::a;' a bare 'b' gives exactly '::a::b'.
C22_SinglePass ==
    /\ C22_Case =>
        /\ last.emit = path_to_tokens(symtab[find(symtab, last.tok)].path)
        /\ out = replace_in_group(symtab, Front(seen)) \o last.emit
        /\ (\A i \in 1..Len(symtab) : OnlyNames(symtab[i].path)) =>
                Len(last.emit) = 3 * Len(symtab[find(symtab, last.tok)].path)
    /\ (Stepped /\ last.tok.kind = "ident" /\ ~C22_Case) => last.emit = << last.tok >>
    /\ (C22_Case /\ CrossBound /\ last.tok = Ident("b")) =>
        last.emit = Colon2 \o Joined(<< "a", "b" >>)

\* 'b a' has been rewritten under 'use a::b; use x::a;'.
C22_Witness ==
    /\ C22_Case
    /\ CrossBound
    /\ pc = "done"
    /\ seen = << Ident("b"), Ident("a") >>
    /\ out = Colon2 \o Joined(<< "a", "b" >>) \o Colon2 \o Joined(<< "x", "a" >>)
====
